---- MODULE Spec2Model ----
(***************************************************************************)
(* A model of run.py of trello-card-snooze.                                *)
(*                                                                         *)
(* Two parts share this module.                                            *)
(*   - The lock protocol of acquire_program_lock() for several concurrent  *)
(*     invocations of the script (LockSpec, FairLockSpec).                 *)
(*   - The body of main() of the invocation that holds .program_lock: the  *)
(*     card loop, tomorrow scheduling, the project checklists and the      *)
(*     Zapier card, against a remote board (Spec).                         *)
(***************************************************************************)
EXTENDS Integers, Sequences, FiniteSets, Bags, TLC

VARIABLES
    \* ---- lock protocol: one entry per invocation of the script
    pc,             \* where each invocation is
    queue_lock,     \* invocations holding an exclusive flock on .queue_lock
    program_lock,   \* invocations holding an exclusive flock on .program_lock
    exit_code,      \* exit status of each ended invocation (None while running)
    used_board,     \* invocations that have read or written the board
    blocked,        \* invocations whose flock(.program_lock) found it held
    \* ---- main() of the invocation that holds .program_lock
    board,          \* the remote board: the cards Trello stores
    data,           \* main's `data`: the card dicts read from the board
    cards,          \* main's `cards` of line 142: positions in data
    phase,          \* where main is
    idx,            \* position of the card loop of line 146 in `cards`
    clock,          \* the last value datetime.utcnow() returned
    localTime,      \* current_time of line 171, minutes after midnight, while in use
    calls,          \* the remote calls this run made successfully, in order
    steps,          \* what the card loop did to each card it visited
    projects,       \* main's `projects` as built by lines 196-215
    prevProjects,   \* `projects` and project_cards of the previous run
    project_cards,  \* main's `project_cards`: positions in data
    failed,         \* the remote call that raised, if one did
    nextId,         \* the next id the remote board hands out
    run,            \* number of runs started
    started         \* the clock when this run read the board

lockVars == <<pc, queue_lock, program_lock, exit_code, used_board, blocked>>

runVars == <<board, data, cards, phase, idx, clock, localTime, calls, steps,
             projects, prevProjects, project_cards, failed, nextId, run,
             started>>

vars == <<lockVars, runVars>>

\* Python's None, and Trello's 'null' for a due date.
None == -1

(***************************************************************************)
(* Bounds of the model.                                                    *)
(***************************************************************************)
\* concurrent invocations of the script
NumInvocations == 3
\* cards of a board besides the project cards
MaxCards == 2
\* items of a checklist found on the board
MaxItems == 2
\* runs of the script, one after the other
MaxRuns == 2
\* ticks the clock advances at most between two calls of utcnow()
MaxStep == 1

Invocations == 1..NumInvocations

(***************************************************************************)
(* The lock protocol: acquire_program_lock() and the ways main() ends.     *)
(*                                                                         *)
(* flock(2): an exclusive lock is held by at most one open file            *)
(* description; LOCK_NB makes a conflicting request raise OSError instead  *)
(* of blocking; closing the descriptor, which process exit does for every  *)
(* descriptor, drops the lock.                                             *)
(***************************************************************************)

\* fcntl.flock(fd, LOCK_EX | LOCK_NB) can be granted
CanLockNB(holders) == holders = {}

\* fcntl.flock(fd, LOCK_EX) is granted (it blocks while this is false)
CanLockEx_Shared(holders) == TRUE

CanLockEx(holders) == holders = {}

\* main() line 131: the invocation starts and calls acquire_program_lock()
Start(i) ==
    /\ pc[i] = "idle"
    /\ pc' = [pc EXCEPT ![i] = "queue"]
    /\ UNCHANGED <<queue_lock, program_lock, exit_code, used_board, blocked>>
    /\ UNCHANGED runVars

\* lines 107-113 with the OSError of a busy .queue_lock swallowed
TryQueue_IgnoreBusy(i) ==
    /\ pc[i] = "queue"
    /\ pc' = [pc EXCEPT ![i] = "program"]
    /\ queue_lock' = IF CanLockNB(queue_lock) THEN queue_lock \cup {i}
                     ELSE queue_lock
    /\ blocked' = IF program_lock # {} THEN blocked \cup {i} ELSE blocked
    /\ UNCHANGED <<program_lock, exit_code, used_board>>
    /\ UNCHANGED runVars

\* lines 107-113: open .queue_lock and flock it LOCK_NB | LOCK_EX; on OSError
\* close it and return False, and main (lines 131-133) logs and exits with 100.
\* On success the invocation goes on to open and flock .program_lock
\* (lines 115-116), which blocks while another invocation holds it.
TryQueue(i) ==
    /\ pc[i] = "queue"
    /\ IF CanLockNB(queue_lock)
       THEN /\ queue_lock' = queue_lock \cup {i}
            /\ pc' = [pc EXCEPT ![i] = "program"]
            /\ blocked' = IF program_lock # {} THEN blocked \cup {i} ELSE blocked
            /\ UNCHANGED exit_code
       ELSE /\ pc' = [pc EXCEPT ![i] = "refused"]
            /\ exit_code' = [exit_code EXCEPT ![i] = 100]
            /\ UNCHANGED <<queue_lock, blocked>>
    /\ UNCHANGED <<program_lock, used_board>>
    /\ UNCHANGED runVars

\* line 116: the blocking flock(.program_lock, LOCK_EX) returns
LockProgram(i) ==
    /\ pc[i] = "program"
    /\ CanLockEx(program_lock)
    /\ program_lock' = program_lock \cup {i}
    /\ pc' = [pc EXCEPT ![i] = "unqueue"]
    /\ UNCHANGED <<queue_lock, exit_code, used_board, blocked>>
    /\ UNCHANGED runVars

\* lines 119-122 with the unlock and close of .queue_lock left out
UnlockQueue_Keep(i) ==
    /\ pc[i] = "unqueue"
    /\ pc' = [pc EXCEPT ![i] = "run"]
    /\ UNCHANGED <<queue_lock, program_lock, exit_code, used_board, blocked>>
    /\ UNCHANGED runVars

\* lines 119-122: unlock and close .queue_lock, return True
UnlockQueue(i) ==
    /\ pc[i] = "unqueue"
    /\ queue_lock' = queue_lock \ {i}
    /\ pc' = [pc EXCEPT ![i] = "run"]
    /\ UNCHANGED <<program_lock, exit_code, used_board, blocked>>
    /\ UNCHANGED runVars

\* lines 135-271: the run reads the board (line 138) and writes to it
BoardOp(i) ==
    /\ pc[i] = "run"
    /\ i \notin used_board
    /\ used_board' = used_board \cup {i}
    /\ UNCHANGED <<pc, queue_lock, program_lock, exit_code, blocked>>
    /\ UNCHANGED runVars

\* line 275 and the return of main: the process exits with status 0 and the
\* kernel closes its descriptors, which drops the flock on .program_lock
Exit(i) ==
    /\ pc[i] = "run"
    /\ pc' = [pc EXCEPT ![i] = "done"]
    /\ exit_code' = [exit_code EXCEPT ![i] = 0]
    /\ program_lock' = program_lock \ {i}
    /\ queue_lock' = queue_lock \ {i}
    /\ UNCHANGED <<used_board, blocked>>
    /\ UNCHANGED runVars

\* the process dies at any point after it started (an uncaught exception, a
\* signal): status 1, and the kernel drops every flock it holds
Crash(i) ==
    /\ pc[i] \in {"queue", "program", "unqueue", "run"}
    /\ pc' = [pc EXCEPT ![i] = "crashed"]
    /\ exit_code' = [exit_code EXCEPT ![i] = 1]
    /\ program_lock' = program_lock \ {i}
    /\ queue_lock' = queue_lock \ {i}
    /\ UNCHANGED <<used_board, blocked>>
    /\ UNCHANGED runVars

(***************************************************************************)
(* Configuration (config.py): label ids, list ids, the board's labels.     *)
(***************************************************************************)
LABEL_SNOOZE == "snooze"
LABEL_IMPORTANT == "important"
LABEL_TOMORROW == "tomorrow"
PROGRESS_LABELS == {"progress"}
LIST_PROJECTS == "Projects"
LIST_TOMORROW == "Tomorrow"
LIST_OTHER == "Todo"

\* The labels of the board, by id: the 'name' and 'color' of the label dicts
\* of card['labels']. A colour of "none" is Python's None: a project label.
BoardLabels ==
    [ snooze    |-> [name |-> <<"snooze">>,    color |-> "blue"],
      important |-> [name |-> <<"important">>, color |-> "red"],
      tomorrow  |-> [name |-> <<"tomorrow">>,  color |-> "green"],
      progress  |-> [name |-> <<"progress">>,  color |-> "yellow"],
      Lp        |-> [name |-> <<"p">>,         color |-> "none"],
      Lq        |-> [name |-> <<"q">>,         color |-> "none"] ]

LabelIds == DOMAIN BoardLabels

(***************************************************************************)
(* Card titles are sequences of characters. A character that never matters *)
(* to the pattern of line 34 may stand for a longer text without '$' and   *)
(* digits: the "[RESTORED] " prefix and the Zapier card's title are one    *)
(* element each.                                                           *)
(***************************************************************************)
Digits == {"0", "1", "2", "3", "4", "5", "6", "7", "8", "9"}

DigitValue(ch) ==
    CASE ch = "0" -> 0 [] ch = "1" -> 1 [] ch = "2" -> 2 [] ch = "3" -> 3
      [] ch = "4" -> 4 [] ch = "5" -> 5 [] ch = "6" -> 6 [] ch = "7" -> 7
      [] ch = "8" -> 8 [] ch = "9" -> 9

RESTORED == "[RESTORED] "
CHECK_CARD == <<"[CHECK] Problem with Trello script">>

\* f"@{card['name']}"
ChecklistName(name) == <<"@">> \o name

\* ticks of the clock in one day (timedelta(days=1))
Day == 8

(***************************************************************************)
(* re.findall and re.sub with the pattern \$\d* of line 34.                *)
(***************************************************************************)

\* the end (exclusive) of the longest run of digits of s starting at i
RECURSIVE DigitsEnd(_, _)
DigitsEnd(s, i) ==
    IF i <= Len(s) /\ s[i] \in Digits THEN DigitsEnd(s, i + 1) ELSE i

\* re.findall(pattern, s): the non-overlapping matches from left to right,
\* each a '$' with the digits that follow it
RECURSIVE FindAllFrom(_, _)
FindAllFrom(s, i) ==
    IF i > Len(s) THEN <<>>
    ELSE IF s[i] = "$"
         THEN <<SubSeq(s, i, DigitsEnd(s, i + 1) - 1)>>
                  \o FindAllFrom(s, DigitsEnd(s, i + 1))
         ELSE FindAllFrom(s, i + 1)

FindAll(s) == FindAllFrom(s, 1)

\* re.sub(pattern, "", s): every match removed
RECURSIVE SubFrom(_, _)
SubFrom(s, i) ==
    IF i > Len(s) THEN <<>>
    ELSE IF s[i] = "$"
         THEN SubFrom(s, DigitsEnd(s, i + 1))
         ELSE <<s[i]>> \o SubFrom(s, i + 1)

Sub(s) == SubFrom(s, 1)

\* str.lstrip("$")
RECURSIVE LStripDollar(_)
LStripDollar(s) ==
    IF s # <<>> /\ Head(s) = "$" THEN LStripDollar(Tail(s)) ELSE s

\* int(substr) of a string of decimal digits
RECURSIVE ToInt(_)
ToInt(s) ==
    IF s = <<>> THEN 0
    ELSE 10 * ToInt(SubSeq(s, 1, Len(s) - 1)) + DigitValue(s[Len(s)])

(***************************************************************************)
(* Remote calls. Each is a record with the method in `op` and the card it  *)
(* is about in `card`; cards.update carries the keyword arguments in       *)
(* `fields` ('true'/'false'/'null' are TRUE/FALSE/None here).              *)
(***************************************************************************)
Update(id, fields) == [op |-> "cards.update", card |-> id, fields |-> fields]

\* the board after trello.cards.update(id, **fields): the fields given
\* replace the card's, the others stay
ApplyUpdate(b, id, fields) ==
    LET has(f) == f \in DOMAIN fields
    IN [k \in DOMAIN b |->
          IF b[k].id = id
          THEN [b[k] EXCEPT
                  !.name     = IF has("name") THEN fields.name ELSE @,
                  !.desc     = IF has("desc") THEN fields.desc ELSE @,
                  !.closed   = IF has("closed") THEN fields.closed ELSE @,
                  !.due      = IF has("due") THEN fields.due ELSE @,
                  !.idLabels = IF has("idLabels") THEN fields.idLabels ELSE @,
                  !.idList   = IF has("idList") THEN fields.idList ELSE @]
          ELSE b[k]]

\* a sequence of records without those whose id is `id`
RECURSIVE WithoutId(_, _)
WithoutId(s, id) ==
    IF s = <<>> THEN <<>>
    ELSE (IF Head(s).id = id THEN <<>> ELSE <<Head(s)>>) \o WithoutId(Tail(s), id)

\* checklist cl after the call c about its items
ApplyToChecklist(cl, c) ==
    IF cl.id # c.checklist THEN cl
    ELSE IF c.op = "checklists.new_checkItem"
    THEN [cl EXCEPT !.checkItems =
             Append(@, [id |-> c.item, name |-> c.name, state |-> c.state])]
    ELSE [cl EXCEPT !.checkItems = WithoutId(@, c.item)]

\* the board after one successful remote write
ApplyCall(b, c) ==
    CASE c.op = "cards.update" -> ApplyUpdate(b, c.card, c.fields)
      [] c.op = "cards.delete" -> WithoutId(b, c.card)
      [] c.op = "cards.delete_idLabel_idLabel" ->
            [k \in DOMAIN b |->
                IF b[k].id = c.card
                THEN [b[k] EXCEPT !.idLabels = @ \ {c.label}] ELSE b[k]]
      [] c.op = "cards.new_checklist" ->
            [k \in DOMAIN b |->
                IF b[k].id = c.card
                THEN [b[k] EXCEPT !.checklists =
                         Append(@, [id |-> c.checklist, name |-> c.name,
                                    checkItems |-> <<>>])]
                ELSE b[k]]
      [] c.op = "checklists.delete" ->
            [k \in DOMAIN b |->
                [b[k] EXCEPT !.checklists = WithoutId(@, c.checklist)]]
      [] c.op \in {"checklists.new_checkItem",
                   "checklists.delete_checkItem_idCheckItem"} ->
            [k \in DOMAIN b |->
                [b[k] EXCEPT !.checklists =
                    [n \in DOMAIN @ |-> ApplyToChecklist(@[n], c)]]]
      [] c.op = "cards.update_checkItem_idCheckItem" ->
            [k \in DOMAIN b |->
                IF b[k].id = c.card
                THEN [b[k] EXCEPT !.checklists =
                        [n \in DOMAIN @ |->
                            [@[n] EXCEPT !.checkItems =
                                [m \in DOMAIN @ |->
                                    IF @[m].id = c.item
                                    THEN [@[m] EXCEPT !.state = c.state]
                                    ELSE @[m]]]]]
                ELSE b[k]]

RECURSIVE ApplyCalls(_, _)
ApplyCalls(b, cs) ==
    IF cs = <<>> THEN b ELSE ApplyCalls(ApplyCall(b, Head(cs)), Tail(cs))


(***************************************************************************)
(* The card functions, lines 25-90. `now` is what datetime.utcnow()        *)
(* returns in the call; strftime and strptime with '%Y-%m-%dT%H:%M:%S.%fZ' *)
(* keep the microseconds, so a due date is the clock value itself. Each    *)
(* function gives the card dict as it leaves it and the remote calls made. *)
(* idLabels is a set: the code only tests membership, appends the snooze   *)
(* label and removes the tomorrow label, which the board lists once.       *)
(***************************************************************************)

\* lines 25-30: False for an archived card with the snooze label and no due
integrity_check(card) ==
    ~(card.closed /\ LABEL_SNOOZE \in card.idLabels /\ card.due = None)

\* line 38 passed: the title holds a '$' and the clock is read (line 44)
DollarReads(card) == FindAll(card.name) # <<>>

\* lines 41-43: the day count of the last match
Delay(name) ==
    LET match == FindAll(name)
        substr == LStripDollar(match[Len(match)])
    IN IF substr = <<>> THEN 1 ELSE ToInt(substr)

\* lines 33-51 with the first match taken instead of the last
handle_dollar_snoozing_First(card, now) ==
    IF ~DollarReads(card) THEN [card |-> card, calls |-> <<>>]
    ELSE LET substr == LStripDollar(FindAll(card.name)[1])
             delay == IF substr = <<>> THEN 1 ELSE ToInt(substr)
             c2 == [card EXCEPT !.name = Sub(@),
                                !.due = now + delay * Day,
                                !.idLabels = @ \cup {LABEL_SNOOZE}]
         IN [card |-> c2,
             calls |-> <<Update(card.id, [name |-> c2.name, due |-> c2.due,
                                          idLabels |-> c2.idLabels])>>]

\* lines 33-51 with the card dict left as it was read (lines 46-48 on a copy)
handle_dollar_snoozing_NoWriteBack(card, now) ==
    IF ~DollarReads(card) THEN [card |-> card, calls |-> <<>>]
    ELSE [card |-> card,
          calls |-> <<Update(card.id,
                             [name |-> Sub(card.name),
                              due |-> now + Delay(card.name) * Day,
                              idLabels |-> card.idLabels \cup {LABEL_SNOOZE}])>>]

\* lines 33-51
handle_dollar_snoozing(card, now) ==
    IF ~DollarReads(card) THEN [card |-> card, calls |-> <<>>]
    ELSE LET delay_time == now + Delay(card.name) * Day
             c2 == [card EXCEPT !.name = Sub(@),
                                !.due = delay_time,
                                !.idLabels = @ \cup {LABEL_SNOOZE}]
         IN [card |-> c2,
             calls |-> <<Update(card.id, [name |-> c2.name, due |-> c2.due,
                                          idLabels |-> c2.idLabels])>>]

\* lines 56-61 passed: the clock is read (line 64)
SnoozeReads(card) ==
    /\ ~(LABEL_SNOOZE \notin card.idLabels \/ card.due = None)
    /\ ~card.closed

\* lines 54-72 with the test of line 66 turned round
snooze_card_Late(card, now) ==
    IF ~SnoozeReads(card) \/ now < card.due
    THEN [card |-> card, calls |-> <<>>]
    ELSE [card |-> [card EXCEPT !.closed = TRUE],
          calls |-> <<Update(card.id, [closed |-> TRUE])>>]

\* lines 54-72
snooze_card(card, now) ==
    IF ~SnoozeReads(card) \/ now > card.due
    THEN [card |-> card, calls |-> <<>>]
    ELSE [card |-> [card EXCEPT !.closed = TRUE],
          calls |-> <<Update(card.id, [closed |-> TRUE])>>]

\* lines 77-78 passed: the clock is read (line 81)
WakeReads(card) == ~(LABEL_SNOOZE \notin card.idLabels \/ card.due = None)

\* lines 75-90
wake_card(card, now) ==
    IF ~WakeReads(card) \/ now < card.due
    THEN [card |-> card, calls |-> <<>>]
    ELSE [card |-> [card EXCEPT !.closed = FALSE, !.due = None],
          calls |-> <<Update(card.id, [closed |-> FALSE, due |-> None])>>]

\* lines 152-157: the update that returns a broken card
RestoreCall(card) ==
    Update(card.id,
           [due |-> None, closed |-> FALSE,
            name |-> <<RESTORED>> \o card.name,
            desc |-> <<"**This card was restored**",
                       "Card does have delay label without any date set">>
                         \o card.desc,
            idLabels |-> card.idLabels \cup {LABEL_IMPORTANT}])

\* lines 148-167, the body of the card loop for one card, with the three
\* clock values the calls of utcnow() return (one that is not made is unused)
CardBody(card, t1, t2, t3) ==
    IF ~integrity_check(card)
    THEN [card |-> card, mid |-> card, calls |-> <<RestoreCall(card)>>,
          repaired |-> TRUE]
    ELSE LET d == handle_dollar_snoozing(card, t1)
             s == snooze_card(d.card, t2)
             w == wake_card(s.card, t3)
         IN [card |-> w.card, mid |-> d.card,
             calls |-> d.calls \o s.calls \o w.calls, repaired |-> FALSE]

(***************************************************************************)
(* Tomorrow scheduling, lines 170-186.                                     *)
(***************************************************************************)

\* line 172 with the window widened by a minute on each side
InWindow_Wide(t) == 59 <= t /\ t <= 121

\* line 172: time(1, 0, 0) <= current_time <= time(2, 0, 0), in minutes
InWindow(t) == 60 <= t /\ t <= 120

\* lines 175-186 over the cards at positions ks[i..] of d: the dicts as the
\* loop leaves them and the remote calls it makes
RECURSIVE TomorrowPass(_, _, _)
TomorrowPass(d, ks, i) ==
    IF i > Len(ks) THEN [data |-> d, calls |-> <<>>]
    ELSE LET card == d[ks[i]]
         IN IF LABEL_TOMORROW \notin card.idLabels
            THEN TomorrowPass(d, ks, i + 1)
            ELSE LET c2 == [card EXCEPT !.idList = LIST_TOMORROW,
                                        !.idLabels = @ \ {LABEL_TOMORROW}]
                     rest == TomorrowPass([d EXCEPT ![ks[i]] = c2], ks, i + 1)
                 IN [data |-> rest.data,
                     calls |-> <<Update(card.id, [idList |-> LIST_TOMORROW]),
                                 [op |-> "cards.delete_idLabel_idLabel",
                                  card |-> card.id, label |-> LABEL_TOMORROW]>>
                               \o rest.calls]

(***************************************************************************)
(* Projects, lines 189-265.                                                *)
(***************************************************************************)

\* line 190: the card has a label without a colour
HasProjectLabel(card) == \E l \in card.labels : BoardLabels[l].color = "none"

\* line 190: the positions in d, in order, of the cards with such a label
RECURSIVE ProjectLabelled(_, _)
ProjectLabelled(d, i) ==
    IF i > Len(d) THEN <<>>
    ELSE (IF HasProjectLabel(d[i]) THEN <<i>> ELSE <<>>)
             \o ProjectLabelled(d, i + 1)

\* lines 196-215 over the cards at positions ks[i..]: acc holds `projects`
\* (label id -> list of (name, closed)) and `project_cards`
RECURSIVE Aggregate(_, _, _, _)
Aggregate(d, ks, i, acc) ==
    IF i > Len(ks) THEN acc
    ELSE LET card == d[ks[i]]
         IN IF card.idList = LIST_PROJECTS
            THEN Aggregate(d, ks, i + 1,
                           [acc EXCEPT !.project_cards = Append(@, ks[i])])
            ELSE IF LABEL_SNOOZE \in card.idLabels
            THEN Aggregate(d, ks, i + 1, acc)
            ELSE LET ls == {l \in card.labels : BoardLabels[l].color = "none"}
                     p == acc.projects
                     p2 == [l \in DOMAIN p \cup ls |->
                              IF l \in ls
                              THEN Append(IF l \in DOMAIN p THEN p[l] ELSE <<>>,
                                          <<card.name, card.closed>>)
                              ELSE p[l]]
                 IN Aggregate(d, ks, i + 1, [acc EXCEPT !.projects = p2])

NoProjects == [l \in {} |-> <<>>]

\* next((c for c in card['checklists'] if c['name'] == f"@{card['name']}"),
\* None): the position of the first such checklist, 0 for None
RECURSIVE FindChecklistFrom(_, _)
FindChecklistFrom(card, k) ==
    IF k > Len(card.checklists) THEN 0
    ELSE IF card.checklists[k].name = ChecklistName(card.name) THEN k
    ELSE FindChecklistFrom(card, k + 1)

FindChecklist(card) == FindChecklistFrom(card, 1)

\* the position of the first pair of entries whose description is desc, 0
\* when there is none (the inner loop of lines 238-240)
RECURSIVE FirstMatchFrom(_, _, _)
FirstMatchFrom(entries, desc, j) ==
    IF j > Len(entries) THEN 0
    ELSE IF entries[j][1] = desc THEN j
    ELSE FirstMatchFrom(entries, desc, j + 1)

\* list.remove(x): the list without its first element equal to x
RECURSIVE RemoveFirst(_, _)
RemoveFirst(entries, x) ==
    IF entries = <<>> THEN <<>>
    ELSE IF Head(entries) = x THEN Tail(entries)
    ELSE <<Head(entries)>> \o RemoveFirst(Tail(entries), x)

StateOf(closed) == IF closed THEN "complete" ELSE "incomplete"

UpdateItem(card, item, state) ==
    [op |-> "cards.update_checkItem_idCheckItem", card |-> card.id,
     item |-> item.id, state |-> state]

\* lines 237-254 over the items cl.checkItems[i..]: the entries left and the
\* remote calls made
RECURSIVE ReconcileItems(_, _, _, _)
ReconcileItems(card, cl, i, entries) ==
    IF i > Len(cl.checkItems) THEN [entries |-> entries, calls |-> <<>>]
    ELSE LET item == cl.checkItems[i]
             j == FirstMatchFrom(entries, item.name, 1)
         IN IF j = 0
            THEN LET rest == ReconcileItems(card, cl, i + 1, entries)
                 IN [entries |-> rest.entries,
                     calls |-> <<[op |-> "checklists.delete_checkItem_idCheckItem",
                                  card |-> card.id, checklist |-> cl.id,
                                  item |-> item.id]>> \o rest.calls]
            ELSE LET closed == entries[j][2]
                     c1 == IF closed /\ item.state # "complete"
                           THEN <<UpdateItem(card, item, "complete")>> ELSE <<>>
                     c2 == IF ~closed /\ item.state # "incomplete"
                           THEN <<UpdateItem(card, item, "incomplete")>> ELSE <<>>
                     rest == ReconcileItems(card, cl, i + 1,
                                            RemoveFirst(entries, entries[j]))
                 IN [entries |-> rest.entries,
                     calls |-> c1 \o c2 \o rest.calls]

\* lines 256-257: one new item per entry left; the board numbers them from id
NewItems(card, cl, entries, id) ==
    [k \in 1..Len(entries) |->
        [op |-> "checklists.new_checkItem", card |-> card.id,
         checklist |-> cl.id, item |-> id + k - 1, name |-> entries[k][1],
         state |-> StateOf(entries[k][2])]]

\* the labels of lines 221-229 that reach line 231
SelfLabels(card, p) ==
    {l \in card.labels :
        /\ ~(BoardLabels[l].name # card.name \/ BoardLabels[l].color # "none")
        /\ l \in DOMAIN p}

\* lines 231-259 for a project card and its label l; st holds `projects`,
\* the calls made so far and the next id of the board
ReconcileLabel(card, st, l) ==
    LET k == FindChecklist(card)
        new == k = 0
        cl == IF new
              THEN [id |-> st.nextId, name |-> ChecklistName(card.name),
                    checkItems |-> <<>>]
              ELSE card.checklists[k]
        id1 == IF new THEN st.nextId + 1 ELSE st.nextId
        c0 == IF new
              THEN <<[op |-> "cards.new_checklist", card |-> card.id,
                      checklist |-> cl.id, name |-> cl.name]>>
              ELSE <<>>
        r == ReconcileItems(card, cl, 1, st.projects[l])
        n == NewItems(card, cl, r.entries, id1)
    IN [projects |-> [st.projects EXCEPT ![l] = r.entries],
        calls |-> st.calls \o c0 \o r.calls \o n,
        nextId |-> id1 + Len(n)]

\* lines 221-265 with the else branch of the loop (lines 261-265) left out
ReconcileCard_KeepOrphan(card, st) ==
    LET ls == SelfLabels(card, st.projects)
    IN IF ls = {} THEN st
       ELSE ReconcileLabel(card, st, CHOOSE x \in ls : TRUE)

\* lines 221-265 for one project card. No two labels of the board have the
\* same name, so at most one label of a card reaches line 231; when none
\* does, the loop ends without break and lines 261-265 run.
ReconcileCard(card, st) ==
    LET ls == SelfLabels(card, st.projects)
        k == FindChecklist(card)
    IN IF ls = {}
       THEN IF k = 0 THEN st
            ELSE [st EXCEPT !.calls =
                     Append(@, [op |-> "checklists.delete", card |-> card.id,
                                checklist |-> card.checklists[k].id])]
       ELSE ReconcileLabel(card, st, CHOOSE x \in ls : TRUE)

\* lines 219-265 over the project cards at positions ks[i..]
RECURSIVE ReconcileAll(_, _, _, _)
ReconcileAll(d, ks, i, st) ==
    IF i > Len(ks) THEN st
    ELSE ReconcileAll(d, ks, i + 1, ReconcileCard(d[ks[i]], st))

\* lines 269-273: delete the first card of `cards` with the Zapier title
RECURSIVE ZapierCalls(_, _, _)
ZapierCalls(d, ks, i) ==
    IF i > Len(ks) THEN <<>>
    ELSE IF d[ks[i]].name = CHECK_CARD
         THEN <<[op |-> "cards.delete", card |-> d[ks[i]].id]>>
         ELSE ZapierCalls(d, ks, i + 1)

(***************************************************************************)
(* main(), lines 135-275, as the steps of one run after another. A remote  *)
(* call may raise; nothing catches the exception, so the calls made before *)
(* it stay on the board and the run ends there ("aborted").                *)
(***************************************************************************)

\* the card dict the board returns, with its label dicts (by id)
ReadCard(c) ==
    [id |-> c.id, name |-> c.name, desc |-> c.desc, closed |-> c.closed,
     due |-> c.due, idLabels |-> c.idLabels, idList |-> c.idList,
     checklists |-> c.checklists, labels |-> c.idLabels]

\* the test of line 142
InWorkingSet(c) == ~c.closed \/ (c.idLabels \cap PROGRESS_LABELS) # {}

\* line 142: the positions in d, in order, of the cards that pass the test
RECURSIVE WorkingSet(_, _)
WorkingSet(d, i) ==
    IF i > Len(d) THEN <<>>
    ELSE (IF InWorkingSet(d[i]) THEN <<i>> ELSE <<>>) \o WorkingSet(d, i + 1)

\* the calls of cs made when the f-th raises (all of them when none does)
Made(cs, f) == IF f = 0 THEN cs ELSE SubSeq(cs, 1, f - 1)

Masters(d, ks) ==
    [k \in DOMAIN ks |-> <<d[ks[k]].id, d[ks[k]].name, d[ks[k]].labels>>]

\* lines 135-144: read the whole board and keep the cards of interest
ReadBoard ==
    /\ phase \in {"idle", "done"}
    /\ run < MaxRuns
    /\ run' = run + 1
    /\ \E f \in {0, 1} :
          IF f = 1
          THEN /\ phase' = "aborted"
               /\ failed' = <<[op |-> "boards.get_card", card |-> 0]>>
               /\ UNCHANGED <<data, cards>>
          ELSE /\ phase' = "cards"
               /\ failed' = <<>>
               /\ data' = [k \in DOMAIN board |-> ReadCard(board[k])]
               /\ cards' = WorkingSet(data', 1)
    /\ idx' = 1
    /\ calls' = <<>>
    /\ steps' = <<>>
    /\ prevProjects' = [projects |-> projects,
                        masters |-> Masters(data, project_cards)]
    /\ projects' = NoProjects
    /\ project_cards' = <<>>
    /\ localTime' = None
    /\ started' = clock
    /\ UNCHANGED <<board, clock, nextId, lockVars>>

\* lines 146-167: one turn of the card loop. utcnow() is called in
\* handle_dollar_snoozing, snooze_card and wake_card when their first tests
\* pass, and never returns less than it did before.
ProcessCard ==
    /\ phase = "cards"
    /\ idx <= Len(cards)
    /\ \E o1, o2, o3 \in 0..MaxStep :
          LET card == data[cards[idx]]
              ok == integrity_check(card)
              rd1 == ok /\ DollarReads(card)
              t1 == IF rd1 THEN clock + o1 ELSE clock
              mid == IF ok THEN handle_dollar_snoozing(card, t1).card ELSE card
              rd2 == ok /\ SnoozeReads(mid)
              t2 == IF rd2 THEN t1 + o2 ELSE t1
              rd3 == ok /\ WakeReads(snooze_card(mid, t2).card)
              t3 == IF rd3 THEN t2 + o3 ELSE t2
              r == CardBody(card, t1, t2, t3)
          IN \E f \in 0..Len(r.calls) :
                /\ board' = ApplyCalls(board, Made(r.calls, f))
                /\ calls' = calls \o Made(r.calls, f)
                /\ clock' = t3
                /\ IF f = 0
                   THEN /\ data' = [data EXCEPT ![cards[idx]] = r.card]
                        /\ steps' = Append(steps,
                              [card |-> card.id, entry |-> card, mid |-> r.mid,
                               out |-> r.card, repaired |-> r.repaired,
                               dollar |-> IF rd1 THEN t1 ELSE None,
                               snooze |-> IF rd2 THEN t2 ELSE None,
                               wake |-> IF rd3 THEN t3 ELSE None,
                               calls |-> r.calls])
                        /\ idx' = idx + 1
                        /\ UNCHANGED <<phase, failed>>
                   ELSE /\ phase' = "aborted"
                        /\ failed' = <<r.calls[f]>>
                        /\ UNCHANGED <<data, steps, idx>>
    /\ UNCHANGED <<cards, localTime, projects, prevProjects, project_cards,
                   nextId, run, started, lockVars>>

\* the local times of day the model tries, in minutes: on the edges of the
\* window of line 172 and just outside them
LocalTimes == {59, 60, 120, 121}

\* lines 170-186: after the card loop, schedule the cards for tomorrow
TomorrowScheduling ==
    /\ phase = "cards"
    /\ idx > Len(cards)
    /\ \E t \in LocalTimes :
          LET r == IF InWindow(t) THEN TomorrowPass(data, cards, 1)
                   ELSE [data |-> data, calls |-> <<>>]
          IN \E f \in 0..Len(r.calls) :
                /\ localTime' = t
                /\ board' = ApplyCalls(board, Made(r.calls, f))
                /\ calls' = calls \o Made(r.calls, f)
                /\ IF f = 0
                   THEN /\ data' = r.data
                        /\ phase' = "projects"
                        /\ UNCHANGED failed
                   ELSE /\ phase' = "aborted"
                        /\ failed' = <<r.calls[f]>>
                        /\ UNCHANGED data
    /\ UNCHANGED <<cards, idx, clock, steps, projects, prevProjects,
                   project_cards, nextId, run, started, lockVars>>

\* lines 189-265: collect the cards of each project, then bring the
\* checklist of every project card in line with them
HandleProjects ==
    /\ phase = "projects"
    /\ LET ks == ProjectLabelled(data, 1)
           agg == Aggregate(data, ks, 1,
                            [projects |-> NoProjects, project_cards |-> <<>>])
           r == ReconcileAll(data, agg.project_cards, 1,
                             [projects |-> agg.projects, calls |-> <<>>,
                              nextId |-> nextId])
       IN \E f \in 0..Len(r.calls) :
             /\ cards' = ks
             /\ projects' = agg.projects
             /\ project_cards' = agg.project_cards
             /\ board' = ApplyCalls(board, Made(r.calls, f))
             /\ calls' = calls \o Made(r.calls, f)
             /\ nextId' = r.nextId
             /\ IF f = 0
                THEN phase' = "zapier" /\ UNCHANGED failed
                ELSE phase' = "aborted" /\ failed' = <<r.calls[f]>>
    /\ localTime' = None
    /\ UNCHANGED <<data, idx, clock, steps, prevProjects, run, started,
                   lockVars>>

\* lines 268-275: remove the Zapier check card and finish
Housekeeping ==
    /\ phase = "zapier"
    /\ LET cs == ZapierCalls(data, cards, 1)
       IN \E f \in 0..Len(cs) :
             /\ board' = ApplyCalls(board, Made(cs, f))
             /\ calls' = calls \o Made(cs, f)
             /\ IF f = 0
                THEN phase' = "done" /\ UNCHANGED failed
                ELSE phase' = "aborted" /\ failed' = <<cs[f]>>
    /\ UNCHANGED <<data, cards, idx, clock, localTime, steps, projects,
                   prevProjects, project_cards, nextId, run, started,
                   lockVars>>

(***************************************************************************)
(* The boards the runs start from.                                         *)
(***************************************************************************)
SeqsUpTo(S, n) == UNION {[1..k -> S] : k \in 0..n}

Card(name, closed, due, idLabels, idList, checklists) ==
    [id |-> 0, name |-> name, desc |-> <<"desc">>, closed |-> closed,
     due |-> due, idLabels |-> idLabels, idList |-> idList,
     checklists |-> checklists]

\* a checklist "@p" with the given (name, state) items
ChecklistP(items) ==
    <<[id |-> 1, name |-> ChecklistName(<<"p">>),
       checkItems |-> [k \in DOMAIN items |->
                          [id |-> k, name |-> items[k][1],
                           state |-> items[k][2]]]]>>

ItemKinds == {<<"a">>, <<"b">>} \X {"complete", "incomplete"}

\* the board numbers its cards, checklists and items
Numbered(b) ==
    [k \in DOMAIN b |->
        [b[k] EXCEPT
           !.id = k,
           !.checklists =
               [c \in DOMAIN @ |->
                   [@[c] EXCEPT
                      !.id = 10 * k + c,
                      !.checkItems =
                          [n \in DOMAIN @ |-> [@[n] EXCEPT !.id = 100 * k + n]]]]]]

\* the instants a due date is tried at: before, at and just after the clock
\* of the first run, and a day later
StartClock == 2
Dues == {None, StartClock - 1, StartClock, StartClock + 1, StartClock + Day}

Titles == {<<"a">>, <<"a", "$">>, <<"$", "0", "a">>,
           <<"$", "2", "a", "$", "1">>, <<"1", "$", "1", "0">>, CHECK_CARD}

\* one card in every state of the card loop, followed by cards to snooze
SimpleCards ==
    {Card(<<"b">>, FALSE, StartClock + Day, {LABEL_SNOOZE}, LIST_OTHER, <<>>),
     Card(<<"b", "$">>, FALSE, None, {LABEL_TOMORROW}, LIST_OTHER, <<>>)}

CardBoards ==
    {<<Card(n, c, d, ls, LIST_OTHER, <<>>)>> \o rest :
        n \in Titles, c \in BOOLEAN, d \in Dues,
        ls \in SUBSET {LABEL_SNOOZE, "progress"},
        rest \in SeqsUpTo(SimpleCards, MaxCards - 1)}

\* a project card "p", possibly a second one, and the cards of project p
ProjectCards ==
    {Card(<<"p">>, FALSE, None, {"Lp"}, LIST_PROJECTS, cl) :
        cl \in {<<>>} \cup {ChecklistP(is) : is \in SeqsUpTo(ItemKinds, MaxItems)}}
    \cup
    {Card(<<"p">>, FALSE, None, ls, LIST_PROJECTS, cl) :
        ls \in {{}, {"progress"}, {"Lq"}},
        cl \in {<<>>, ChecklistP(<<<<<<"a">>, "incomplete">>>>)}}

SecondProjectCards ==
    {<<>>,
     <<Card(<<"p">>, FALSE, None, {"Lp"}, LIST_PROJECTS, <<>>)>>,
     <<Card(<<"p">>, FALSE, None, {"Lp"}, LIST_PROJECTS,
            ChecklistP(<<<<<<"a">>, "incomplete">>>>))>>}

MemberCards ==
    {Card(n, c, None, {"Lp"}, LIST_OTHER, <<>>) :
        n \in {<<"a">>, <<"b">>}, c \in BOOLEAN}

ProjectBoards ==
    {<<m>> \o m2 \o rest :
        m \in ProjectCards, m2 \in SecondProjectCards,
        rest \in SeqsUpTo(MemberCards, MaxCards)}

\* a project card and one card of the project in every state of the card loop
MixedBoards ==
    {<<Card(m[1], FALSE, None, m[2], LIST_PROJECTS, cl),
       Card(n, c, d, {"Lp"} \cup ls, LIST_OTHER, <<>>)>> :
        m \in {<<<<"p">>, {"Lp"}>>, <<<<"p", "$">>, {"Lp"}>>,
               <<<<"p">>, {"Lp", LABEL_TOMORROW}>>},
        cl \in {<<>>, ChecklistP(<<<<<<"a">>, "incomplete">>>>)},
        n \in {<<"a">>, <<"a", "$">>, CHECK_CARD}, c \in BOOLEAN,
        d \in {None, StartClock - 1, StartClock + 1},
        ls \in SUBSET {LABEL_SNOOZE, "progress"}}

\* a broken card that the card loop visits, with the labels of the later stages
RepairBoards ==
    {<<Card(<<"a">>, TRUE, None, {LABEL_SNOOZE, "progress"} \cup ls,
            LIST_OTHER, <<>>)>> \o rest :
        ls \in SUBSET {LABEL_TOMORROW, "Lp"},
        rest \in SeqsUpTo(SimpleCards, MaxCards - 1)}

Boards ==
    {Numbered(b) :
        b \in CardBoards \cup ProjectBoards \cup MixedBoards \cup RepairBoards}

InitLockIdle ==
    /\ pc = [i \in Invocations |-> "idle"]
    /\ queue_lock = {}
    /\ program_lock = {}
    /\ exit_code = [i \in Invocations |-> None]
    /\ used_board = {}
    /\ blocked = {}

InitRunIdle ==
    /\ data = <<>>
    /\ cards = <<>>
    /\ phase = "idle"
    /\ idx = 1
    /\ clock = StartClock
    /\ localTime = None
    /\ calls = <<>>
    /\ steps = <<>>
    /\ projects = NoProjects
    /\ prevProjects = [projects |-> NoProjects, masters |-> <<>>]
    /\ project_cards = <<>>
    /\ failed = <<>>
    /\ nextId = 1000
    /\ run = 0
    /\ started = StartClock

\* the runs of the script, one at a time, from any of the boards
Init == InitLockIdle /\ InitRunIdle /\ board \in Boards

Next ==
    \/ ReadBoard
    \/ ProcessCard
    \/ TomorrowScheduling
    \/ HandleProjects
    \/ Housekeeping

Spec == Init /\ [][Next]_vars

\* the invocations of the script against each other; the board stays out
LockInit == InitLockIdle /\ InitRunIdle /\ board = <<>>

LockNext ==
    \E i \in Invocations :
        \/ Start(i)
        \/ TryQueue(i)
        \/ LockProgram(i)
        \/ UnlockQueue(i)
        \/ BoardOp(i)
        \/ Exit(i)
        \/ Crash(i)

LockSpec == LockInit /\ [][LockNext]_vars

\* the kernel grants a free lock to the process blocked on it, a process that
\* is not blocked goes on, and the run that holds .program_lock ends
FairLockSpec ==
    /\ LockSpec
    /\ \A i \in Invocations :
          /\ WF_vars(LockProgram(i))
          /\ WF_vars(UnlockQueue(i))
          /\ WF_vars(Exit(i))

(***************************************************************************)
(* The lock protocol, checked under LockSpec and FairLockSpec.             *)
(***************************************************************************)

\* invocations that returned True from acquire_program_lock and are in the
\* rest of main
Running == {i \in Invocations : pc[i] = "run"}

\* invocations blocked in the flock of line 116
Waiting == {i \in Invocations : pc[i] = "program"}

\* C1: at most one invocation at a time is past acquire_program_lock, and it
\* is the one holder of .program_lock; only such an invocation touches the
\* board.
C1_OneRunAtATime ==
    /\ Cardinality(Running) <= 1
    /\ \A i \in Running : program_lock = {i}
    /\ \A i \in used_board : pc[i] \in {"run", "done", "crashed"}

\* one invocation uses the board while another is blocked on .program_lock
C1_Witness ==
    \E i, j \in Invocations :
        /\ pc[i] = "run" /\ i \in used_board
        /\ pc[j] = "program" /\ j \in blocked

\* C2: at most one invocation at a time waits for .program_lock; an
\* invocation that finds .queue_lock held by another leaves the flock of line
\* 109 at once for exit code 100 (unless it is killed), has never waited and
\* never touches the board.
C2_OneWaiterOthersRefused ==
    /\ [](Cardinality(Waiting) <= 1)
    /\ [](\A i \in Invocations :
             pc[i] = "refused" =>
                 /\ exit_code[i] = 100
                 /\ i \notin used_board
                 /\ i \notin blocked
                 /\ i \notin queue_lock \cup program_lock)
    /\ [][\A i \in Invocations :
             (pc[i] = "queue" /\ queue_lock \ {i} # {} /\ pc'[i] # pc[i])
                 => pc'[i] \in {"refused", "crashed"}]_vars

\* a third invocation was refused while one runs and one waits
C2_Witness ==
    \E i, j, k \in Invocations :
        /\ pc[i] = "refused" /\ exit_code[i] = 100
        /\ pc[j] = "program" /\ j \in blocked
        /\ pc[k] = "run"

\* C3: an invocation waiting for .program_lock gets it and runs (unless it is
\* killed first), given that the holder ends; and an invocation that holds
\* .program_lock gives up .queue_lock, which it no longer holds while it runs.
C3_WaiterGetsLock ==
    /\ \A i \in Invocations : (pc[i] = "program") ~> (pc[i] \in {"run", "crashed"})
    /\ \A i \in Invocations : (pc[i] = "unqueue") ~> (i \notin queue_lock)
    /\ [](\A i \in Running : i \notin queue_lock)

\* an invocation that had to wait runs, and a later one has queued behind it
C3_Witness ==
    \E i, j \in Invocations :
        /\ pc[i] = "run" /\ i \in blocked
        /\ pc[j] = "program" /\ j \in queue_lock

(***************************************************************************)
(* The runs, checked under Spec. The card dicts of `data` are read as the  *)
(* run leaves them: the stages after the card loop see them that way.      *)
(***************************************************************************)

\* the run went through the project stage without a failed call
ProjectsDone == phase \in {"zapier", "done"}

\* the project-master cards of the run: positions in data
MasterCards == {k \in DOMAIN data : data[k].idList = LIST_PROJECTS}

\* the colourless labels of a card named like the card
OwnLabels(c) ==
    {l \in c.labels : BoardLabels[l].color = "none" /\ BoardLabels[l].name = c.name}

\* the cards that contribute to project label l: not a master, not snoozed
Contributing(l) ==
    {k \in DOMAIN data :
        /\ data[k].idList # LIST_PROJECTS
        /\ LABEL_SNOOZE \notin data[k].idLabels
        /\ l \in data[k].labels}

\* the checklists "@<title>" the board holds now on the card of data[k]
OwnChecklists(k) ==
    {cl \in UNION {{board[j].checklists[n] : n \in DOMAIN board[j].checklists} :
                      j \in {j \in DOMAIN board : board[j].id = data[k].id}} :
        cl.name = ChecklistName(data[k].name)}

ChecklistOps == {"cards.new_checklist", "checklists.delete",
                 "checklists.new_checkItem",
                 "cards.update_checkItem_idCheckItem",
                 "checklists.delete_checkItem_idCheckItem"}

ItemOps == {"checklists.new_checkItem", "cards.update_checkItem_idCheckItem",
            "checklists.delete_checkItem_idCheckItem"}

\* the calls of the run with a method of ops about the card with this id
CallsAbout(id, ops) ==
    {n \in DOMAIN calls : calls[n].op \in ops /\ calls[n].card = id}

\* C4: a run that finds the projects and the project cards as the run before
\* it left them makes no checklist call.
C4_SecondRunNoChecklistWrites ==
    (/\ run >= 2
     /\ ProjectsDone
     /\ prevProjects = [projects |-> projects,
                        masters |-> Masters(data, project_cards)])
        => \A n \in DOMAIN calls : calls[n].op \notin ChecklistOps

\* C5: after a run, the items of the checklist "@<title>" of every project
\* card whose own label has contributing cards are, as a multiset of (text,
\* state), the (title, complete if closed else incomplete) of those cards.
C5_ChecklistMirrorsCards ==
    phase = "done" =>
        \A k \in MasterCards : \A l \in OwnLabels(data[k]) :
            Contributing(l) # {} =>
                /\ OwnChecklists(k) # {}
                /\ \A cl \in OwnChecklists(k) :
                      \A name \in {data[j].name : j \in Contributing(l)}
                                     \cup {cl.checkItems[n].name : n \in DOMAIN cl.checkItems} :
                         \A closed \in BOOLEAN :
                            Cardinality({n \in DOMAIN cl.checkItems :
                                            /\ cl.checkItems[n].name = name
                                            /\ cl.checkItems[n].state = StateOf(closed)})
                              = Cardinality({j \in Contributing(l) :
                                                /\ data[j].name = name
                                                /\ data[j].closed = closed})

\* C6: a project card that carries its own label, when no card contributes to
\* that label in the run, loses the checklist "@<title>" it had as a whole:
\* one checklists.delete for it, no call about an item, and none left on the
\* board.
C6_OrphanChecklistDeleted ==
    ProjectsDone =>
        \A k \in MasterCards :
            (/\ OwnLabels(data[k]) # {}
             /\ \A l \in OwnLabels(data[k]) : Contributing(l) = {})
                => /\ CallsAbout(data[k].id, ItemOps \cup {"cards.new_checklist"}) = {}
                   /\ OwnChecklists(k) = {}
                   /\ FindChecklist(data[k]) # 0 =>
                         \E n \in CallsAbout(data[k].id, {"checklists.delete"}) :
                            calls[n].checklist
                                = data[k].checklists[FindChecklist(data[k])].id

\* a project card with its own label, no contributing card and a checklist
\* "@<title>" with items was handled, and the checklist was deleted
C6_Witness ==
    /\ phase = "done"
    /\ \E k \in MasterCards :
          /\ OwnLabels(data[k]) # {}
          /\ \A l \in OwnLabels(data[k]) : Contributing(l) = {}
          /\ FindChecklist(data[k]) # 0
          /\ data[k].checklists[FindChecklist(data[k])].checkItems # <<>>
          /\ CallsAbout(data[k].id, {"checklists.delete"}) # {}

\* C7: after a run no project card without a colourless label named like the
\* card has a checklist "@<title>".
C7_NoLabelNoChecklist ==
    phase = "done" =>
        \A k \in MasterCards :
            OwnLabels(data[k]) = {} => OwnChecklists(k) = {}

\* the card loop was stopped by a failed write
CardLoopFailed ==
    /\ phase = "aborted"
    /\ idx <= Len(cards)
    /\ failed # <<>>
    /\ failed[1].op = "cards.update"
    /\ failed[1].card = data[cards[idx]].id

\* C8: when a write fails for one card in the card loop, every later card of
\* the working set is still processed in the run.
C8_LaterCardsProcessed ==
    CardLoopFailed =>
        \A j \in (idx + 1)..Len(cards) :
            \E n \in DOMAIN steps : steps[n].card = data[cards[j]].id

HasCall(step, fields) ==
    \E n \in DOMAIN step.calls : step.calls[n] = Update(step.card, fields)

\* the board's cards with this id
OnBoard(id) == {board[j] : j \in {j \in DOMAIN board : board[j].id = id}}

\* C9: for an open card that reaches the snooze step with the snooze label
\* and a due date: if the due date is before the clock the snooze step reads,
\* the card is not closed, and the wake step reopens it and clears the due
\* date; if it is after every clock value read for the card, the snooze step
\* closes it and the wake step leaves it.
C9_SnoozeWakeBoundary ==
    \A n \in DOMAIN steps :
        LET s == steps[n]
        IN (/\ ~s.repaired
            /\ ~s.mid.closed
            /\ LABEL_SNOOZE \in s.mid.idLabels
            /\ s.mid.due # None)
              => /\ s.snooze # None /\ s.wake # None
                 /\ s.mid.due < s.snooze =>
                       /\ ~HasCall(s, [closed |-> TRUE])
                       /\ HasCall(s, [closed |-> FALSE, due |-> None])
                       /\ ~s.out.closed /\ s.out.due = None
                       /\ \A c \in OnBoard(s.card) : ~c.closed /\ c.due = None
                 /\ (s.mid.due > s.snooze /\ s.mid.due > s.wake) =>
                       /\ HasCall(s, [closed |-> TRUE])
                       /\ ~HasCall(s, [closed |-> FALSE, due |-> None])
                       /\ s.out.closed /\ s.out.due = s.mid.due
                       /\ \A c \in OnBoard(s.card) : c.closed /\ c.due = s.mid.due

\* in one run a card with a passed due date was woken and another, with a due
\* date ahead, was closed, the clock having moved between the two readings
C9_Witness ==
    \E n, m \in DOMAIN steps :
        /\ ~steps[n].mid.closed /\ steps[n].snooze # None
        /\ steps[n].mid.due # None /\ steps[n].mid.due < steps[n].snooze
        /\ ~steps[n].out.closed
        /\ ~steps[m].mid.closed /\ steps[m].snooze # None
        /\ steps[m].mid.due > steps[m].wake /\ steps[m].wake > steps[m].snooze
        /\ steps[m].out.closed

\* C10: a card whose title carries a directive is not woken in the run that
\* processes the directive: it ends the card loop closed, with the due date
\* the directive gives and the snooze label.
C10_FreshSnoozeStaysClosed ==
    \A n \in DOMAIN steps :
        LET s == steps[n]
        IN (~s.repaired /\ DollarReads(s.entry)) =>
              /\ ~HasCall(s, [closed |-> FALSE, due |-> None])
              /\ s.out.closed
              /\ s.out.due = s.dollar + Delay(s.entry.name) * Day
              /\ LABEL_SNOOZE \in s.out.idLabels

\* the positions of a title that no directive covers: not a '$', and not a
\* digit of the run of digits that follows a '$'
KeptPositions(name) ==
    {i \in DOMAIN name :
        /\ name[i] # "$"
        /\ ~(/\ name[i] \in Digits
             /\ \E j \in 1..(i - 1) :
                   /\ name[j] = "$"
                   /\ \A m \in (j + 1)..i : name[m] \in Digits)}

\* r is the title with exactly the kept positions, in order
IsStripped(r, name) ==
    LET K == KeptPositions(name)
    IN /\ Len(r) = Cardinality(K)
       /\ \A i \in K : r[Cardinality({j \in K : j <= i})] = name[i]

\* the digits that follow the last '$' of a title
LastSuffix(name) ==
    LET p == CHOOSE i \in DOMAIN name :
                 name[i] = "$" /\ \A j \in DOMAIN name : name[j] = "$" => j <= i
        e == CHOOSE n \in p..Len(name) :
                 /\ \A m \in (p + 1)..n : name[m] \in Digits
                 /\ (n < Len(name) => name[n + 1] \notin Digits)
    IN SubSeq(name, p + 1, e)

\* the value of a run of digits, read in base ten
RECURSIVE Decimal(_)
Decimal(ds) ==
    IF ds = <<>> THEN 0
    ELSE 10 * Decimal(SubSeq(ds, 1, Len(ds) - 1)) + DigitValue(ds[Len(ds)])

LoopDone == phase \in {"projects", "zapier", "done"}

\* the card of data[k] as the run read it from the board: the card loop and
\* the tomorrow pass change only the dicts of the cards the loop visited
AtStart(k) ==
    IF \E n \in DOMAIN steps : steps[n].card = data[k].id
    THEN steps[CHOOSE n \in DOMAIN steps : steps[n].card = data[k].id].entry
    ELSE data[k]

\* the card was archived with the snooze label and no due date
Broken(c) == c.closed /\ LABEL_SNOOZE \in c.idLabels /\ c.due = None

\* the repair writes the run made for card c
RepairWrites(c) ==
    {n \in DOMAIN calls :
        /\ calls[n].op = "cards.update"
        /\ calls[n].card = c.id
        /\ DOMAIN calls[n].fields = {"due", "closed", "name", "desc", "idLabels"}
        /\ calls[n].fields.closed = FALSE
        /\ calls[n].fields.due = None
        /\ calls[n].fields.name = <<RESTORED>> \o c.name
        /\ {LABEL_SNOOZE, LABEL_IMPORTANT} \subseteq calls[n].fields.idLabels}

\* C12: a completed run has made exactly one repair write for every card the
\* board held closed, with the snooze label and without a due date, and no
\* title ever carries the prefix twice.
C12_RepairExactlyOnce ==
    /\ phase = "done" =>
          \A k \in DOMAIN data :
              Broken(AtStart(k)) => Cardinality(RepairWrites(AtStart(k))) = 1
    /\ \A j \in DOMAIN board :
          ~(/\ Len(board[j].name) >= 2
            /\ board[j].name[1] = RESTORED
            /\ board[j].name[2] = RESTORED)

\* the tomorrow calls the run made for the card with this id
TomorrowCalls(id) ==
    {n \in DOMAIN calls :
        /\ calls[n].card = id
        /\ \/ calls[n].op = "cards.delete_idLabel_idLabel"
           \/ /\ calls[n].op = "cards.update"
              /\ "idList" \in DOMAIN calls[n].fields}

\* C13: a run outside the window of 01:00 to 02:00 leaves the list and the
\* tomorrow label of every card as they were, in its first run as in a later
\* one; a run inside the window moves every card of the working set that
\* carries the tomorrow label to the Tomorrow list and takes the label off,
\* and does neither to any other card.
C13_TomorrowOnlyInWindow ==
    phase = "projects" =>
        \A k \in DOMAIN data : \A c \in OnBoard(data[k].id) :
            LET old == AtStart(k)
                moved == /\ 60 <= localTime /\ localTime <= 120
                         /\ InWorkingSet(old)
                         /\ LABEL_TOMORROW \in old.idLabels
            IN IF moved
               THEN /\ c.idList = LIST_TOMORROW
                    /\ LABEL_TOMORROW \notin c.idLabels
                    /\ Cardinality(TomorrowCalls(old.id)) = 2
               ELSE /\ c.idList = old.idList
                    /\ LABEL_TOMORROW \in c.idLabels <=> LABEL_TOMORROW \in old.idLabels
                    /\ TomorrowCalls(old.id) = {}

\* a card kept the tomorrow label through a run outside the window and was
\* moved by the next run, exactly at 02:00
C13_Witness ==
    /\ phase = "projects"
    /\ run = 2
    /\ localTime = 120
    /\ \E k \in DOMAIN data :
          /\ LABEL_TOMORROW \in AtStart(k).idLabels
          /\ AtStart(k).idList # LIST_TOMORROW
          /\ \A c \in OnBoard(data[k].id) : c.idList = LIST_TOMORROW

\* C14: a completed run has deleted every card that the board held with the
\* Zapier check title when the run read it, whatever its labels.
C14_CheckCardDeleted ==
    phase = "done" =>
        \A k \in DOMAIN data :
            AtStart(k).name = CHECK_CARD =>
                /\ OnBoard(data[k].id) = {}
                /\ CallsAbout(data[k].id, {"cards.delete"}) # {}

\* C15: when the card loop and the tomorrow pass are over, the repair write
\* is the only call the run has made for a card the integrity check repaired.
C15_RepairedCardLeftAlone ==
    phase = "projects" =>
        \A n \in DOMAIN steps :
            steps[n].repaired =>
                {m \in DOMAIN calls : calls[m].card = steps[n].card}
                    = RepairWrites(steps[n].entry)

ColourlessLabels == {l \in LabelIds : BoardLabels[l].color = "none"}

\* the (title, closed) entries the run collected for label l
EntriesOf(l) == IF l \in DOMAIN projects THEN projects[l] ELSE <<>>

\* how many entries of a list are the pair (name, closed)
CountOf(entries, name, closed) ==
    Cardinality({n \in DOMAIN entries : entries[n] = <<name, closed>>})

\* C16 as amended: the project stage sees every card as the earlier stages of
\* the run left it on the board: the entries collected for a colourless
\* label are the (title, closed) of the cards that, after the writes of the
\* card loop and the tomorrow pass, are outside the Projects list, carry the
\* label and do not carry the snooze label.
C16_AggregationSeesWrites ==
    phase = "zapier" =>
        \A l \in ColourlessLabels :
            \A name \in {board[j].name : j \in DOMAIN board}
                           \cup {EntriesOf(l)[n][1] : n \in DOMAIN EntriesOf(l)} :
                \A closed \in BOOLEAN :
                    CountOf(EntriesOf(l), name, closed)
                      = Cardinality({j \in DOMAIN board :
                                        /\ board[j].idList # LIST_PROJECTS
                                        /\ LABEL_SNOOZE \notin board[j].idLabels
                                        /\ l \in board[j].idLabels
                                        /\ board[j].name = name
                                        /\ board[j].closed = closed})

\* a card of a project had its directive handled in the run and the project
\* stage left it out; another was moved out of the Projects list by the
\* tomorrow pass and was collected as a card of its project
C16_Witness ==
    /\ phase = "zapier"
    /\ \E n \in DOMAIN steps :
          /\ steps[n].dollar # None
          /\ "Lp" \in steps[n].entry.labels
          /\ steps[n].entry.idList # LIST_PROJECTS
          /\ LABEL_SNOOZE \notin steps[n].entry.idLabels
          /\ CountOf(EntriesOf("Lp"), steps[n].entry.name,
                     steps[n].entry.closed) = 0

\* C16: the project stage sees every card with the title, labels, closed
\* flag and list the run read at its start: the entries collected for a
\* colourless label are the (title, closed) of the cards that were read
\* outside the Projects list, with the label and without the snooze label.
C16_AggregationSeesSnapshot ==
    phase = "zapier" =>
        \A l \in ColourlessLabels :
            \A name \in {AtStart(k).name : k \in DOMAIN data}
                           \cup {EntriesOf(l)[n][1] : n \in DOMAIN EntriesOf(l)} :
                \A closed \in BOOLEAN :
                    CountOf(EntriesOf(l), name, closed)
                      = Cardinality({k \in DOMAIN data :
                                        /\ AtStart(k).idList # LIST_PROJECTS
                                        /\ LABEL_SNOOZE \notin AtStart(k).idLabels
                                        /\ l \in AtStart(k).idLabels
                                        /\ AtStart(k).name = name
                                        /\ AtStart(k).closed = closed})

\* C17: a completed run that started at or after the due date of a card the
\* board held closed, with the snooze label and no new directive in its
\* title, has reopened the card and cleared its due date.
C17_SnoozedCardReopened ==
    phase = "done" =>
        \A k \in DOMAIN data :
            LET c == AtStart(k)
            IN (/\ c.closed
                /\ LABEL_SNOOZE \in c.idLabels
                /\ c.due # None
                /\ c.due <= started
                /\ ~DollarReads(c))
                  => \A b \in OnBoard(c.id) : ~b.closed /\ b.due = None

\* the card is as wake_card leaves a card: open, no due date, snooze label
Woken(c) == ~c.closed /\ c.due = None /\ LABEL_SNOOZE \in c.idLabels

\* C18: after a completed run, for every card that the run found as the wake
\* step leaves it and that carries the label of a project, the checklist
\* "@<title>" of the project card holds an incomplete item with the card's
\* title.
C18_WokenCardIsLive ==
    phase = "done" =>
        \A k \in DOMAIN data : \A m \in MasterCards :
            (/\ Woken(AtStart(k))
             /\ ~DollarReads(AtStart(k))
             /\ OnBoard(data[k].id) # {}
             /\ data[k].idList # LIST_PROJECTS
             /\ OwnLabels(data[m]) \cap data[k].labels # {})
                => \E cl \in OwnChecklists(m) : \E n \in DOMAIN cl.checkItems :
                      /\ cl.checkItems[n].name = data[k].name
                      /\ cl.checkItems[n].state = "incomplete"

Abs(x) == IF x < 0 THEN -x ELSE x

\* the fewest create, update and delete calls that turn the items with one
\* title (c1 complete, i1 incomplete) into c2 complete and i2 incomplete:
\* the difference in number is created or deleted, and what then still
\* differs in state is updated
MinOpsFor(c1, i1, c2, i2) ==
    LET d == Abs((c1 + i1) - (c2 + i2))
        rest == Abs(c1 - c2) + Abs(i1 - i2) - d
    IN d + (IF rest > 0 THEN rest \div 2 ELSE 0)

\* the fewest item calls that make the items mirror the entries, over the
\* titles of names
RECURSIVE MinOps(_, _, _)
MinOps(items, entries, names) ==
    IF names = {} THEN 0
    ELSE LET t == CHOOSE x \in names : TRUE
         IN MinOpsFor(
                Cardinality({n \in DOMAIN items :
                    items[n].name = t /\ items[n].state = "complete"}),
                Cardinality({n \in DOMAIN items :
                    items[n].name = t /\ items[n].state = "incomplete"}),
                CountOf(entries, t, TRUE),
                CountOf(entries, t, FALSE))
            + MinOps(items, entries, names \ {t})

\* the items of the checklist "@<title>" the run read for the card, if any
ItemsRead(c) ==
    IF FindChecklist(c) = 0 THEN <<>>
    ELSE c.checklists[FindChecklist(c)].checkItems

\* C19: for every project card whose own label has collected entries, the
\* run makes as many check-item calls for the card as the fewest that turn
\* the items it read into the collected entries.
C19_MinimalItemCalls ==
    phase = "zapier" =>
        \A k \in MasterCards : \A l \in OwnLabels(data[k]) :
            l \in DOMAIN projects =>
                Cardinality(CallsAbout(data[k].id, ItemOps))
                  = MinOps(ItemsRead(data[k]), projects[l],
                           {projects[l][n][1] : n \in DOMAIN projects[l]}
                             \cup {ItemsRead(data[k])[n].name :
                                      n \in DOMAIN ItemsRead(data[k])})

\* C20: no card is both closed by the snooze step and reopened by the wake
\* step of the same turn of the card loop, whatever the two clock readings.
C20_NotClosedAndReopened ==
    \A n \in DOMAIN steps :
        (steps[n].snooze # None /\ steps[n].wake # None) =>
            ~(/\ HasCall(steps[n], [closed |-> TRUE])
              /\ HasCall(steps[n], [closed |-> FALSE, due |-> None]))

====
